---- MODULE Spec2Model ----
(***************************************************************************)
(* Model of the energy monitor (src/app.py): a Flask application that      *)
(* fetches electricity and gas consumption readings from the Octopus       *)
(* GraphQL API, upserts them into the SQLite table `consumption` and       *)
(* serves them back through /api/consumption/<fuel_type> and /api/stats.   *)
(*                                                                         *)
(* Timestamps are TEXT in the program (ISO-8601 strings): the model keeps  *)
(* them as strings, [t |-> the date and time of day, counted in half-hour  *)
(* slots, sfx |-> what follows the seconds], and compares them the way     *)
(* SQLite compares TEXT, byte by byte.                                     *)
(***************************************************************************)
EXTENDS Integers, Sequences, FiniteSets, TLC

\* ------------------------------------------------------------------ bounds

\* The clock advances at most this many steps past its start.
MaxClock == 1
\* Readings (edges) one meter reports in one response.
MaxBatch == 2
\* Readings one meter reports when two cycles run at once.
MaxConcBatch == 1
\* Meters one ingestion cycle walks through when two cycles run at once.
MaxConcMeters == 1
\* Meters one ingestion cycle walks through.
MaxMeters == 2
\* The largest ?days= value a request carries.
MaxDays == 1
\* Rows of the table in the initial states of the query specification.
MaxRows == 2

\* ------------------------------------------------------- program constants

\* timedelta(days=days): a day in the model's unit, the half-hour slot.
SlotsPerDay == 48
\* request.args.get('days', 7, type=int)
DefaultDays == 7
\* period_from = utcnow() - timedelta(days=7)
FetchDays == 7

Workers == {"w1", "w2"}
Fuels == {"electricity", "gas"}
NULL == "null"
NoLock == "nobody"
\* A connection that was dropped with its transaction open and is not yet
\* collected.
Garbage == "garbage"

\* ------------------------------------------------------------- timestamps

\* datetime.isoformat() of a naive datetime: no offset, and the fraction
\* only when the microsecond is not 0.  An instant is counted in halves of a
\* slot since the epoch: an even instant is the start of a slot, an odd one
\* lies inside it and has a fraction.
IsoFormat(instant) ==
    [t |-> instant \div 2, sfx |-> IF instant % 2 = 0 THEN "" ELSE ".500000"]

\* The first byte at which two suffixes differ decides: "" is a prefix of
\* all others, then '+' (0x2B) < '.' (0x2E) < 'Z' (0x5A), and
\* "+00:00" < "+01:00".
SfxRank(sfx) ==
    CASE sfx = "" -> 0
      [] sfx = "+00:00" -> 1
      [] sfx = "+01:00" -> 2
      [] sfx = ".500000" -> 3
      [] sfx = "Z" -> 4
      [] sfx = ".500000Z" -> 5

\* SQLite's comparison of two TEXT values (BINARY collation, memcmp): the
\* date and time digits are fixed width, so they compare as the number does.
TextLess(a, b) ==
    \/ a.t < b.t
    \/ a.t = b.t /\ SfxRank(a.sfx) < SfxRank(b.sfx)

\* ------------------------------------------------------------------ store

\* One row of the table consumption.
Row(fuel_type, reading, updated_at) ==
    [fuel_type |-> fuel_type,
     interval_start |-> reading.startAt,
     interval_end |-> reading.endAt,
     consumption |-> reading.value,
     updated_at |-> updated_at]

SameKey(r, fuel_type, interval_start) ==
    r.fuel_type = fuel_type /\ r.interval_start = interval_start

\* INSERT OR IGNORE: the row with the same key, if any, stays.
UpsertKeepOld(rows, fuel_type, reading, updated_at) ==
    IF \E r \in rows : SameKey(r, fuel_type, reading.startAt)
    THEN rows
    ELSE rows \cup {Row(fuel_type, reading, updated_at)}

\* An update of the row in place that leaves its interval_end.
UpsertMerge(rows, fuel_type, reading, updated_at) ==
    {r \in rows : ~SameKey(r, fuel_type, reading.startAt)}
    \cup {IF \E r \in rows : SameKey(r, fuel_type, reading.startAt)
          THEN [Row(fuel_type, reading, updated_at) EXCEPT
                  !.interval_end =
                      (CHOOSE r \in rows :
                          SameKey(r, fuel_type, reading.startAt)).interval_end]
          ELSE Row(fuel_type, reading, updated_at)}

\* INSERT OR REPLACE under PRIMARY KEY (fuel_type, interval_start): the row
\* with the same key, if any, is deleted and the new row inserted.
Upsert(rows, fuel_type, reading, updated_at) ==
    {r \in rows : ~SameKey(r, fuel_type, reading.startAt)}
    \cup {Row(fuel_type, reading, updated_at)}

\* reading['startAt'], reading['endAt'], reading['value']: a missing key
\* raises KeyError before the statement runs.
WellFormed(reading) ==
    {"startAt", "endAt", "value"} \subseteq DOMAIN reading

\* ------------------------------------------------------------------ state

VARIABLES
    OCTOPUS_API_KEY,  \* os.getenv('OCTOPUS_API_KEY', ''): "" when not configured
    ACCOUNT_NUMBER,   \* os.getenv('OCTOPUS_ACCOUNT_NUMBER', '')
    db,               \* the committed rows of the table consumption
    dbLock,           \* the connection holding SQLite's write lock, or NoLock
    clock,            \* datetime.utcnow(), an instant
    pc,               \* pc[w]: where the request worker w is in its handler
    req,              \* req[w]: the locals of the handler w runs
    resp,             \* resp[w]: the HTTP response of w's request, once made
    hist,             \* hist[w]: what w's request has done so far (history)
    lastUpsert        \* per key, the row of the last committed upsert (history)

vars == <<OCTOPUS_API_KEY, ACCOUNT_NUMBER, db, dbLock, clock, pc, req, resp,
          hist, lastUpsert>>

config == <<OCTOPUS_API_KEY, ACCOUNT_NUMBER>>

\* The slot the clock starts in, late enough for every cutoff to be positive;
\* the clock starts inside the slot, as a clock read at any moment does.
StartSlot == (FetchDays + 1) * SlotsPerDay
ClockStart == 2 * StartSlot + 1

\* What the remote reports: startAt and endAt carry a UTC offset, value is
\* in tenths of a unit.  Two nodes of the same interval differ in endAt and
\* value; a third is of another interval.
RemoteValues == {10, 25}
Node(startAt, endAt, value) ==
    [startAt |-> startAt, endAt |-> endAt, value |-> value]
RemoteStarts ==
    {[t |-> StartSlot, sfx |-> "+00:00"], [t |-> StartSlot + 3, sfx |-> "+01:00"]}
Nodes ==
    {Node([t |-> StartSlot, sfx |-> "+00:00"],
          [t |-> StartSlot + 1, sfx |-> "+00:00"], 10),
     Node([t |-> StartSlot, sfx |-> "+00:00"],
          [t |-> StartSlot + 1, sfx |-> "Z"], 25),
     Node([t |-> StartSlot + 3, sfx |-> "+01:00"],
          [t |-> StartSlot + 4, sfx |-> "+01:00"], 10)}
\* A node without its value.
BadNodes == {[startAt |-> [t |-> StartSlot, sfx |-> "+00:00"],
              endAt |-> [t |-> StartSlot + 1, sfx |-> "+00:00"]]}

SeqsUpTo(S, n) == UNION {[1..k -> S] : k \in 0..n}

\* meter['consumption'] of a meter of the fuel type: null, or the nodes of
\* its edges.  The gas meters report one interval only.
NullConsumption == [null |-> TRUE, edges |-> <<>>]
GasNodes == {n \in Nodes : n.startAt.t = StartSlot /\ n.value = 10}
Payloads(fuel_type) ==
    {NullConsumption}
    \cup [null : {FALSE},
          edges : SeqsUpTo(IF fuel_type = "gas" THEN GasNodes
                           ELSE Nodes \cup BadNodes, MaxBatch)]

Keys == Fuels \X RemoteStarts
NoRow == <<>>

NoResp == [code |-> 0]
IdleReq == [handler |-> "none"]
\* The history of a request:
\*   remoteCalls   POSTs sent to the remote
\*   writes        INSERT OR REPLACE statements executed
\*   failedMeters  meters whose consumption the remote could not deliver
\*   applied       the rows written by the open transaction, in order
\*   ingested      per fuel type, the upserts committed
\*   cycleRows     the <<fuel type, node>> pairs committed
\*   twice         a committed batch held two different readings of one key
\*   since         the instant now - days of a listing
FreshHist ==
    [remoteCalls |-> 0, writes |-> 0, failedMeters |-> 0, applied |-> <<>>,
     ingested |-> [f \in Fuels |-> 0], cycleRows |-> {}, twice |-> FALSE,
     since |-> 0]

Init ==
    /\ OCTOPUS_API_KEY \in {"", "sk_live"}
    /\ ACCOUNT_NUMBER \in {"", "A-1234"}
    /\ db = {}
    /\ dbLock = NoLock
    /\ clock = ClockStart
    /\ pc = [w \in Workers |-> "idle"]
    /\ req = [w \in Workers |-> IdleReq]
    /\ resp = [w \in Workers |-> NoResp]
    /\ hist = [w \in Workers |-> FreshHist]
    /\ lastUpsert = [k \in Keys |-> NoRow]

\* Time passes.
Tick ==
    /\ clock < ClockStart + MaxClock
    /\ clock' = clock + 1
    /\ UNCHANGED <<config, db, dbLock, pc, req, resp, hist, lastUpsert>>

\* --------------------------------------------------------- error handling

ErrorResponse(message) == [code |-> 500, error |-> message]

\* except Exception as e: return jsonify({'error': str(e)}), 500.  The
\* connection of an interrupted store_consumption is dropped without commit
\* or close: its transaction is rolled back and its lock released when the
\* interpreter frees the connection, which is at once or at a later garbage
\* collection.
Raise(w, message) ==
    /\ resp' = [resp EXCEPT ![w] = ErrorResponse(message)]
    /\ pc' = [pc EXCEPT ![w] = "done"]
    /\ dbLock' \in IF dbLock = w THEN {NoLock, Garbage} ELSE {dbLock}

\* The interpreter frees a dropped connection: rollback, lock released.
CollectGarbage ==
    /\ dbLock = Garbage
    /\ dbLock' = NoLock
    /\ UNCHANGED <<config, db, clock, pc, req, resp, hist, lastUpsert>>

\* ---------------------------------------------------------- remote client

\* if not OCTOPUS_API_KEY and not ACCOUNT_NUMBER
NotConfiguredBoth == OCTOPUS_API_KEY = "" /\ ACCOUNT_NUMBER = ""

\* if not OCTOPUS_API_KEY or not ACCOUNT_NUMBER
NotConfigured == OCTOPUS_API_KEY = "" \/ ACCOUNT_NUMBER = ""

\* account_info / fetch_latest_data up to the construction of the client.
\* The unconfigured branch answers at once.
StartRemoteHandler(w, handler) ==
    /\ pc[w] = "idle"
    /\ IF NotConfigured
       THEN /\ resp' = [resp EXCEPT ![w] =
                          ErrorResponse("API key or account number not configured")]
            /\ pc' = [pc EXCEPT ![w] = "done"]
            /\ req' = [req EXCEPT ![w] = [handler |-> handler]]
       ELSE /\ pc' = [pc EXCEPT ![w] = "token"]
            /\ req' = [req EXCEPT ![w] =
                         [handler |-> handler,
                          token |-> NULL,
                          period_from |->
                              [IsoFormat(clock - 2 * SlotsPerDay * FetchDays)
                                  EXCEPT !.sfx = @ \o "Z"],
                          period_to |-> [IsoFormat(clock) EXCEPT !.sfx = @ \o "Z"]]]
            /\ resp' = resp
    /\ hist' = [hist EXCEPT ![w] = FreshHist]
    /\ UNCHANGED <<config, db, dbLock, clock, lastUpsert>>

AccountInfo(w) == StartRemoteHandler(w, "account_info")

FetchLatestData(w) == StartRemoteHandler(w, "fetch_latest_data")

\* OctopusGraphQL.get_token: one POST; raise_for_status or an 'errors' member
\* raises.
GetToken(w) ==
    /\ pc[w] = "token"
    /\ hist' = [hist EXCEPT ![w].remoteCalls = @ + 1]
    /\ \E ok \in BOOLEAN :
         IF ok
         THEN /\ req' = [req EXCEPT ![w].token = "kraken"]
              /\ pc' = [pc EXCEPT ![w] = "query"]
              /\ UNCHANGED <<resp, dbLock>>
         ELSE /\ Raise(w, "GraphQL error")
              /\ req' = req
    /\ UNCHANGED <<config, db, clock, lastUpsert>>

\* OctopusGraphQL.query: one POST with the token; an HTTP error status or an
\* 'errors' member in the body raises.  The remote reports in 'errors' a
\* query it rejects as a whole, and also a field it could not resolve while
\* the rest of the data is there: one meter's consumption (meter_errors).
\* account_info answers with the data; fetch_latest_data starts its loops.
Query(w) ==
    /\ pc[w] = "query"
    /\ \E outcome \in {"data", "http_error", "errors", "meter_errors"} :
         /\ hist' = [hist EXCEPT
                ![w].remoteCalls = @ + 1,
                ![w].failedMeters =
                    IF outcome = "meter_errors" /\ req[w].handler = "fetch_latest_data"
                    THEN 1 ELSE 0]
         /\ IF outcome # "data"
            THEN /\ Raise(w, IF outcome = "http_error" THEN "HTTPError"
                                                      ELSE "GraphQL error")
                 /\ req' = req
            ELSE IF req[w].handler = "account_info"
            THEN /\ resp' = [resp EXCEPT ![w] = [code |-> 200, account |-> ACCOUNT_NUMBER]]
                 /\ pc' = [pc EXCEPT ![w] = "done"]
                 /\ UNCHANGED <<req, dbLock>>
            ELSE /\ req' = [req EXCEPT ![w] =
                              [handler |-> @.handler,
                               token |-> @.token,
                               period_from |-> @.period_from,
                               period_to |-> @.period_to,
                               elec_count |-> 0,
                               gas_count |-> 0,
                               fuel |-> "electricity",
                               meters |-> 0]]
                 /\ pc' = [pc EXCEPT ![w] = "loop"]
                 /\ UNCHANGED <<resp, dbLock>>
    /\ UNCHANGED <<config, db, clock, lastUpsert>>

\* ------------------------------------------------------ fetch_latest_data

\* One turn of `for meter in meter_point.get('meters', [])`, for the fuel
\* type whose meter points the handler is walking: the readings of the meter
\* are taken from its edges; a null consumption has no .get and raises; an
\* empty list is skipped; otherwise store_consumption opens its connection.
NextMeterFrom(w, payloads, limit) ==
    /\ pc[w] = "loop"
    /\ req[w].meters < limit
    /\ \E consumption \in payloads :
         IF consumption.null
         THEN /\ Raise(w, "AttributeError")
              /\ req' = req
              /\ hist' = [hist EXCEPT ![w].failedMeters = @ + 1]
         ELSE IF consumption.edges = <<>>
         THEN /\ req' = [req EXCEPT ![w].meters = @ + 1]
              /\ UNCHANGED <<pc, resp, dbLock, hist>>
         ELSE /\ req' = [req EXCEPT ![w] =
                           [handler |-> @.handler,
                            token |-> @.token,
                            period_from |-> @.period_from,
                            period_to |-> @.period_to,
                            elec_count |-> @.elec_count,
                            gas_count |-> @.gas_count,
                            fuel |-> @.fuel,
                            meters |-> @.meters + 1,
                            readings |-> consumption.edges,
                            i |-> 1,
                            txn |-> {}]]
              /\ pc' = [pc EXCEPT ![w] = "store"]
              /\ UNCHANGED <<resp, dbLock, hist>>
    /\ UNCHANGED <<config, db, clock, lastUpsert>>

NextMeter(w) == NextMeterFrom(w, Payloads(req[w].fuel), MaxMeters)

\* The electricity meter points of the property are exhausted: on to its gas
\* meter points.
GasMeterPoints(w) ==
    /\ pc[w] = "loop"
    /\ req[w].fuel = "electricity"
    /\ req' = [req EXCEPT ![w].fuel = "gas"]
    /\ UNCHANGED <<config, db, dbLock, clock, pc, resp, hist, lastUpsert>>

\* The gas meter points of the property are exhausted and another property
\* follows: on to its electricity meter points.
NextProperty(w) ==
    /\ pc[w] = "loop"
    /\ req[w].fuel = "gas"
    /\ req[w].meters < MaxMeters
    /\ req' = [req EXCEPT ![w].fuel = "electricity"]
    /\ UNCHANGED <<config, db, dbLock, clock, pc, resp, hist, lastUpsert>>

\* A batch counted under both fuel types.
CountAll(fuel_type, stored_as) == TRUE

\* elec_count += len(readings) follows store_consumption('electricity', ...),
\* gas_count += len(readings) follows store_consumption('gas', ...).
CountedUnder(fuel_type, stored_as) == fuel_type = stored_as

\* No property is left: the handler answers with its counts.
Respond(w) ==
    /\ pc[w] = "loop"
    /\ req[w].fuel = "gas"
    /\ resp' = [resp EXCEPT ![w] =
                  [code |-> 200,
                   status |-> "success",
                   electricity_readings |-> req[w].elec_count,
                   gas_readings |-> req[w].gas_count,
                   period_from |-> req[w].period_from,
                   period_to |-> req[w].period_to]]
    /\ pc' = [pc EXCEPT ![w] = "done"]
    /\ UNCHANGED <<config, db, dbLock, clock, req, hist, lastUpsert>>

\* ------------------------------------------------------ store_consumption

\* The rows the connection of w sees: its own transaction's once it wrote.
View(w) == IF dbLock = w THEN req[w].txn ELSE db

\* A connection in autocommit: every execute() changes the table.
ExecAutocommit(w, rows) ==
    /\ req' = [req EXCEPT ![w].txn = rows, ![w].i = @ + 1]
    /\ dbLock' = w
    /\ db' = rows
    /\ UNCHANGED lastUpsert

\* What one execute() changes: the transaction's rows, not the table's.
ExecWrite(w, rows) ==
    /\ req' = [req EXCEPT ![w].txn = rows, ![w].i = @ + 1]
    /\ dbLock' = w
    /\ UNCHANGED <<db, lastUpsert>>

\* One turn of `for reading in readings`: the parameters are built (a missing
\* key raises KeyError) and INSERT OR REPLACE runs inside the connection's
\* transaction, which the first statement opens by taking the write lock.
Execute(w) ==
    /\ pc[w] = "store"
    /\ req[w].i <= Len(req[w].readings)
    /\ LET reading == req[w].readings[req[w].i]
           updated_at == IsoFormat(clock)
       IN  IF ~WellFormed(reading)
           THEN /\ Raise(w, "KeyError")
                /\ hist' = [hist EXCEPT ![w].applied = <<>>]
                /\ UNCHANGED <<req, db, lastUpsert>>
           ELSE /\ dbLock \in {NoLock, w}
                /\ ExecWrite(w, Upsert(View(w), req[w].fuel, reading, updated_at))
                /\ hist' = [hist EXCEPT
                       ![w].writes = @ + 1,
                       ![w].applied =
                           Append(@, [fuel_type |-> req[w].fuel,
                                      node |-> reading,
                                      at |-> updated_at])]
                /\ UNCHANGED <<pc, resp>>
    /\ UNCHANGED <<config, clock>>

\* The write lock is another connection's (another request's, or a dropped
\* one's) until the busy timeout expires: sqlite3.OperationalError, database
\* is locked.
ExecuteBusy(w) ==
    /\ pc[w] = "store"
    /\ req[w].i <= Len(req[w].readings)
    /\ WellFormed(req[w].readings[req[w].i])
    /\ dbLock \notin {NoLock, w}
    /\ Raise(w, "OperationalError")
    /\ UNCHANGED <<config, db, clock, req, hist, lastUpsert>>

\* Per key, the last upsert of the transaction; the earlier one where the
\* transaction has none.
LastApplied(applied, before) ==
    [k \in Keys |->
        LET mine == {j \in 1..Len(applied) :
                        <<applied[j].fuel_type, applied[j].node.startAt>> = k}
        IN  IF mine = {}
            THEN before[k]
            ELSE LET j == CHOOSE x \in mine : \A y \in mine : y <= x
                 IN  <<[interval_end |-> applied[j].node.endAt,
                        consumption |-> applied[j].node.value,
                        updated_at |-> applied[j].at]>>]

\* conn.commit(); conn.close(); then the handler adds len(readings) to the
\* count of the fuel type.
Commit(w) ==
    /\ pc[w] = "store"
    /\ req[w].i > Len(req[w].readings)
    /\ db' = View(w)
    /\ dbLock' = NoLock
    /\ req' = [req EXCEPT
           ![w].elec_count =
               IF CountedUnder("electricity", req[w].fuel)
               THEN @ + Len(req[w].readings) ELSE @,
           ![w].gas_count =
               IF CountedUnder("gas", req[w].fuel)
               THEN @ + Len(req[w].readings) ELSE @]
    /\ pc' = [pc EXCEPT ![w] = "loop"]
    /\ hist' = [hist EXCEPT
           ![w].applied = <<>>,
           ![w].ingested[req[w].fuel] = @ + Len(hist[w].applied),
           ![w].cycleRows =
               @ \cup {<<hist[w].applied[j].fuel_type, hist[w].applied[j].node>> :
                          j \in 1..Len(hist[w].applied)},
           ![w].twice =
               @ \/ \E j1, j2 \in 1..Len(hist[w].applied) :
                       /\ hist[w].applied[j1].node.startAt
                              = hist[w].applied[j2].node.startAt
                       /\ hist[w].applied[j1].node # hist[w].applied[j2].node]
    /\ lastUpsert' = LastApplied(hist[w].applied, lastUpsert)
    /\ UNCHANGED <<config, clock, resp>>

\* The response is sent; the worker is free for the next request.
Finish(w) ==
    /\ pc[w] = "done"
    /\ pc' = [pc EXCEPT ![w] = "idle"]
    /\ req' = [req EXCEPT ![w] = IdleReq]
    /\ resp' = [resp EXCEPT ![w] = NoResp]
    /\ hist' = [hist EXCEPT ![w] = FreshHist]
    /\ UNCHANGED <<config, db, dbLock, clock, lastUpsert>>

\* ---------------------------------------------------------- query service

\* The greatest of a nonempty set of rows by interval_start, as TEXT.
MaxByStart(rows) ==
    CHOOSE r \in rows :
        \A o \in rows : o = r \/ TextLess(o.interval_start, r.interval_start)

MinByStart(rows) ==
    CHOOSE r \in rows :
        \A o \in rows : o = r \/ TextLess(r.interval_start, o.interval_start)

\* ORDER BY interval_start DESC
RECURSIVE OrderByStartDesc(_)
OrderByStartDesc(rows) ==
    IF rows = {} THEN <<>>
    ELSE LET r == MaxByStart(rows)
         IN  <<r>> \o OrderByStartDesc(rows \ {r})

\* WHERE fuel_type = ? AND interval_start > ?
Where(rows, fuel_type, cutoff) ==
    {r \in rows : r.fuel_type = fuel_type /\ TextLess(cutoff, r.interval_start)}

\* SELECT interval_start, interval_end, consumption FROM consumption
\* WHERE ... ORDER BY ..., each row made the object the handler returns.
SelectConsumption(rows, fuel_type, cutoff) ==
    LET sorted == OrderByStartDesc(Where(rows, fuel_type, cutoff))
    IN  [j \in 1..Len(sorted) |->
            [interval_start |-> sorted[j].interval_start,
             interval_end |-> sorted[j].interval_end,
             consumption |-> sorted[j].consumption]]

\* request.args.get('days', 7, type=int): the default when the parameter is
\* absent (or is no integer).
DaysArgs == [given : {TRUE}, days : 0..MaxDays] \cup {[given |-> FALSE, days |-> 0]}
Days(arg) == IF arg.given THEN arg.days ELSE DefaultDays

\* /api/consumption/<fuel_type>?days=: one SELECT on a fresh connection.
GetConsumption(w) ==
    /\ pc[w] = "idle"
    /\ \E fuel_type \in Fuels \cup {"oil"}, arg \in DaysArgs :
         LET since == clock - 2 * SlotsPerDay * Days(arg)
         IN  /\ req' = [req EXCEPT ![w] = [handler |-> "get_consumption",
                                           fuel_type |-> fuel_type]]
             /\ hist' = [hist EXCEPT ![w] = [FreshHist EXCEPT !.since = since]]
             /\ resp' = [resp EXCEPT ![w] =
                           [code |-> 200,
                            body |-> SelectConsumption(db, fuel_type,
                                                       IsoFormat(since))]]
    /\ pc' = [pc EXCEPT ![w] = "done"]
    /\ UNCHANGED <<config, db, dbLock, clock, lastUpsert>>

\* SQL aggregates over no row: COUNT is 0, SUM, MIN and MAX are NULL.  A
\* value that may be NULL is a sequence of at most one element.
RECURSIVE Sum(_)
Sum(rows) ==
    IF rows = {} THEN 0
    ELSE LET r == CHOOSE x \in rows : TRUE
         IN  r.consumption + Sum(rows \ {r})

\* SELECT COUNT(*), SUM(consumption), MIN(interval_start),
\* MAX(interval_start) FROM consumption WHERE fuel_type = ?
SelectStats(rows, fuel) ==
    LET sel == {r \in rows : r.fuel_type = fuel}
    IN  [reading_count |-> Cardinality(sel),
         total_consumption |-> IF sel = {} THEN <<>> ELSE <<Sum(sel)>>,
         earliest_reading |->
             IF sel = {} THEN <<>> ELSE <<MinByStart(sel).interval_start>>,
         latest_reading |->
             IF sel = {} THEN <<>> ELSE <<MaxByStart(sel).interval_start>>]

\* /api/stats: the connection is opened, stats = {}.
GetStats(w) ==
    /\ pc[w] = "idle"
    /\ req' = [req EXCEPT ![w] = [handler |-> "get_stats",
                                  fuels |-> <<"electricity", "gas">>,
                                  stats |-> <<>>]]
    /\ hist' = [hist EXCEPT ![w] = FreshHist]
    /\ pc' = [pc EXCEPT ![w] = "stats"]
    /\ UNCHANGED <<config, db, dbLock, clock, resp, lastUpsert>>

\* One turn of `for fuel in ['electricity', 'gas']`: one SELECT.
StatsSelect(w) ==
    /\ pc[w] = "stats"
    /\ req[w].fuels # <<>>
    /\ req' = [req EXCEPT
           ![w].fuels = Tail(@),
           ![w].stats = Append(@, [fuel |-> Head(req[w].fuels),
                                   row |-> SelectStats(db, Head(req[w].fuels))])]
    /\ UNCHANGED <<config, db, dbLock, clock, pc, resp, hist, lastUpsert>>

\* return jsonify(stats)
StatsRespond(w) ==
    /\ pc[w] = "stats"
    /\ req[w].fuels = <<>>
    /\ resp' = [resp EXCEPT ![w] =
                  [code |-> 200,
                   body |-> [f \in Fuels |->
                               (CHOOSE e \in {req[w].stats[j] :
                                                j \in 1..Len(req[w].stats)} :
                                   e.fuel = f).row]]]
    /\ pc' = [pc EXCEPT ![w] = "done"]
    /\ UNCHANGED <<config, db, dbLock, clock, req, hist, lastUpsert>>

\* --------------------------------------------------------- specifications

\* Ingestion, one request at a time.
Next ==
    \/ Tick
    \/ AccountInfo("w1")
    \/ FetchLatestData("w1")
    \/ GetToken("w1")
    \/ Query("w1")
    \/ NextMeter("w1")
    \/ GasMeterPoints("w1")
    \/ NextProperty("w1")
    \/ Respond("w1")
    \/ Execute("w1")
    \/ ExecuteBusy("w1")
    \/ Commit("w1")
    \/ Finish("w1")
    \/ CollectGarbage

Spec == Init /\ [][Next]_vars

\* The query service over a table that earlier cycles filled: every table of
\* at most MaxRows rows, one per key, whose interval_start the remote reports
\* with the offset of winter or of summer time, around the cutoffs a request
\* can ask for.
QueryStarts ==
    [t : {StartSlot - SlotsPerDay, StartSlot, StartSlot + 1, StartSlot + 2},
     sfx : {"+00:00", "+01:00"}]

QueryRows ==
    {Row(f, Node(st, [st EXCEPT !.t = @ + 1], v), IsoFormat(ClockStart)) :
        f \in Fuels, st \in QueryStarts, v \in RemoteValues}

UniqueKeys(rows) ==
    \A r1, r2 \in rows :
        SameKey(r1, r2.fuel_type, r2.interval_start) => r1 = r2

RECURSIVE SubsetsUpTo(_, _)
SubsetsUpTo(S, n) ==
    IF n = 0 THEN {{}}
    ELSE LET smaller == SubsetsUpTo(S, n - 1)
         IN  smaller \cup {T \cup {x} : T \in smaller, x \in S}

InitQuery ==
    /\ OCTOPUS_API_KEY = "sk_live"
    /\ ACCOUNT_NUMBER = "A-1234"
    /\ db \in {rows \in SubsetsUpTo(QueryRows, MaxRows) : UniqueKeys(rows)}
    /\ dbLock = NoLock
    /\ clock = ClockStart
    /\ pc = [w \in Workers |-> "idle"]
    /\ req = [w \in Workers |-> IdleReq]
    /\ resp = [w \in Workers |-> NoResp]
    /\ hist = [w \in Workers |-> FreshHist]
    /\ lastUpsert = [k \in Keys |-> NoRow]

NextQuery ==
    \/ Tick
    \/ GetConsumption("w1")
    \/ GetStats("w1")
    \/ StatsSelect("w1")
    \/ StatsRespond("w1")
    \/ Finish("w1")

SpecQuery == InitQuery /\ [][NextQuery]_vars

\* Two ingestion cycles at once (the server handles each request in a thread
\* of its own).  Both accounts' electricity meters report the same interval,
\* with either of its two nodes; the gas meters report nothing.
ConcPayloads(fuel_type) ==
    [null : {FALSE},
     edges : SeqsUpTo(IF fuel_type = "gas" THEN {}
                      ELSE {n \in Nodes : n.startAt.t = StartSlot}, MaxConcBatch)]

ConcNextMeter(w) == NextMeterFrom(w, ConcPayloads(req[w].fuel), MaxConcMeters)

InitConc ==
    /\ OCTOPUS_API_KEY = "sk_live"
    /\ ACCOUNT_NUMBER = "A-1234"
    /\ db = {}
    /\ dbLock = NoLock
    /\ clock = ClockStart
    /\ pc = [w \in Workers |-> "idle"]
    /\ req = [w \in Workers |-> IdleReq]
    /\ resp = [w \in Workers |-> NoResp]
    /\ hist = [w \in Workers |-> FreshHist]
    /\ lastUpsert = [k \in Keys |-> NoRow]

NextConc ==
    \/ Tick
    \/ \E w \in Workers :
         \/ FetchLatestData(w)
         \/ GetToken(w)
         \/ Query(w)
         \/ ConcNextMeter(w)
         \/ GasMeterPoints(w)
         \/ Respond(w)
         \/ Execute(w)
         \/ ExecuteBusy(w)
         \/ Commit(w)
         \/ Finish(w)

SpecConc == InitConc /\ [][NextConc]_vars

\* ----------------------------------------------------------------- claims

\* The instant an ISO-8601 string denotes: the time of day less the UTC
\* offset (+01:00 is two slots; Z, +00:00 and a naive UTC time have none),
\* plus the fraction.
Instant(iso) ==
    2 * (iso.t - (IF iso.sfx = "+01:00" THEN 2 ELSE 0))
    + (IF iso.sfx \in {".500000", ".500000Z"} THEN 1 ELSE 0)

KeyOf(r) == <<r.fuel_type, r.interval_start>>
RowsOfKey(rows, k) == {r \in rows : KeyOf(r) = k}
Listed(r) ==
    [interval_start |-> r.interval_start,
     interval_end |-> r.interval_end,
     consumption |-> r.consumption]
Elements(seq) == {seq[j] : j \in 1..Len(seq)}
FetchDone(w) == pc[w] = "done" /\ req[w].handler = "fetch_latest_data"

\* The row the last committed upsert of key k wrote.
LatestRow(k) ==
    [fuel_type |-> k[1],
     interval_start |-> k[2],
     interval_end |-> lastUpsert[k][1].interval_end,
     consumption |-> lastUpsert[k][1].consumption,
     updated_at |-> lastUpsert[k][1].updated_at]

\* C1: whatever cycles ran, the table holds for every key exactly the row of
\* the last upsert committed for that key (no row for a key never upserted),
\* and the listing and the statistics of a fuel type show those rows only.
C1_LatestUpsertOnly ==
    /\ \A r \in db : KeyOf(r) \in Keys
    /\ \A k \in Keys :
         RowsOfKey(db, k) = IF lastUpsert[k] = NoRow THEN {} ELSE {LatestRow(k)}
    /\ \A f \in Fuels :
         LET latest == {Listed(LatestRow(k)) :
                           k \in {x \in Keys : x[1] = f /\ lastUpsert[x] # NoRow}}
             listing == SelectConsumption(db, f, IsoFormat(0))
         IN  /\ Elements(listing) = latest
             /\ Len(listing) = Cardinality(latest)
             /\ SelectStats(db, f).reading_count = Cardinality(latest)

\* A key holds the second node of its interval, written after the first one
\* of the same cycle and at a later time.
C1_Witness ==
    \E r \in db :
        /\ r.consumption = 25
        /\ r.updated_at = IsoFormat(ClockStart + 1)
        /\ \E n \in Nodes :
             /\ n.startAt = r.interval_start
             /\ n.value = 10
             /\ <<r.fuel_type, n>> \in hist["w1"].cycleRows

\* C2 (as claimed): a cycle in which the consumption of a meter could not be
\* fetched still answers with success, and its counts are those of the
\* readings it stored.
C2_FailureIsolated ==
    \A w \in Workers :
        FetchDone(w) /\ hist[w].failedMeters > 0 =>
            /\ resp[w].code = 200
            /\ resp[w].electricity_readings = hist[w].ingested["electricity"]
            /\ resp[w].gas_readings = hist[w].ingested["gas"]

\* C3: with the API key or the account number not configured, no request
\* goes past the check: no POST is sent, no statement is executed, the table
\* stays as it was, and the answer is 500 with the configuration message.
C3_UnconfiguredDoesNothing ==
    OCTOPUS_API_KEY = "" \/ ACCOUNT_NUMBER = "" =>
        /\ db = {}
        /\ dbLock = NoLock
        /\ \A w \in Workers :
             /\ pc[w] \in {"idle", "done"}
             /\ hist[w].remoteCalls = 0
             /\ hist[w].writes = 0
             /\ pc[w] = "done" =>
                  resp[w] = [code |-> 500,
                             error |-> "API key or account number not configured"]

\* One of the two values is configured, the other is not, and
\* /api/fetch-data has answered.
C3_Witness ==
    /\ OCTOPUS_API_KEY # ""
    /\ ACCOUNT_NUMBER = ""
    /\ FetchDone("w1")

\* The step of w that executes one INSERT OR REPLACE.
Executes(w) == pc[w] = "store" /\ hist'[w].writes = hist[w].writes + 1

\* The rows the statement w is about to execute would repeat: same key, same
\* interval_end, same consumption.
Repeated(w) ==
    LET reading == req[w].readings[req[w].i]
    IN  {r \in View(w) : /\ SameKey(r, req[w].fuel, reading.startAt)
                         /\ r.interval_end = reading.endAt
                         /\ r.consumption = reading.value}

\* C4 (as claimed): an upsert that repeats the stored row leaves it as it
\* was in every column, updated_at included.
C4_FullyIdempotent ==
    [][\A w \in Workers :
          Executes(w) => \A r \in Repeated(w) : r \in req'[w].txn]_vars

\* C4 (amended): an upsert that repeats the stored row leaves one row for the
\* key, the same in fuel_type, interval_start, interval_end and consumption,
\* with updated_at the time of this last call.
C4_IdempotentButForUpdatedAt ==
    [][\A w \in Workers :
          Executes(w) =>
              \A r \in Repeated(w) :
                  RowsOfKey(req'[w].txn, KeyOf(r)) =
                      {[r EXCEPT !.updated_at = IsoFormat(clock)]}]_vars

\* A transaction has rewritten a row of the table with the same interval_end
\* and consumption at a later time.
C4_Witness ==
    /\ dbLock = "w1"
    /\ \E old \in db, r \in req["w1"].txn :
         /\ KeyOf(r) = KeyOf(old)
         /\ r.interval_end = old.interval_end
         /\ r.consumption = old.consumption
         /\ r.updated_at # old.updated_at

\* C5 (as claimed): the listing holds exactly the rows of the fuel type whose
\* interval_start is an instant after since = now - days, the later first.
C5_ListIsWindow ==
    \A w \in Workers :
        pc[w] = "done" /\ req[w].handler = "get_consumption" =>
            LET body == resp[w].body
                want == {r \in db : /\ r.fuel_type = req[w].fuel_type
                                    /\ Instant(r.interval_start) > hist[w].since}
            IN  /\ Elements(body) = {Listed(r) : r \in want}
                /\ Len(body) = Cardinality(want)
                /\ \A i, j \in 1..Len(body) :
                     i < j => Instant(body[i].interval_start)
                                  >= Instant(body[j].interval_start)

\* The sum of the consumption of the rows, value by value.
TotalOf(rows) ==
    10 * Cardinality({r \in rows : r.consumption = 10})
    + 25 * Cardinality({r \in rows : r.consumption = 25})

\* C6 (as claimed): per fuel type the statistics are the number of its rows,
\* the sum of their consumption (NULL without rows), and the interval_start
\* of its earliest and of its latest row.
C6_StatsAreAggregates ==
    \A w \in Workers :
        pc[w] = "done" /\ req[w].handler = "get_stats" =>
            \A f \in Fuels :
                LET sel == {r \in db : r.fuel_type = f}
                    st == resp[w].body[f]
                IN  /\ st.reading_count = Cardinality(sel)
                    /\ st.total_consumption =
                           IF sel = {} THEN <<>> ELSE <<TotalOf(sel)>>
                    /\ sel = {} => st.earliest_reading = <<>> /\ st.latest_reading = <<>>
                    /\ sel # {} =>
                         /\ \E r \in sel :
                              /\ st.earliest_reading = <<r.interval_start>>
                              /\ \A o \in sel : Instant(r.interval_start)
                                                    <= Instant(o.interval_start)
                         /\ \E r \in sel :
                              /\ st.latest_reading = <<r.interval_start>>
                              /\ \A o \in sel : Instant(r.interval_start)
                                                    >= Instant(o.interval_start)

\* C7: a cycle that answers success reports per fuel type the number of
\* upserts it committed under that fuel type, and has left none uncommitted.
C7_CountsAreIngested ==
    \A w \in Workers :
        FetchDone(w) /\ resp[w].code = 200 =>
            /\ resp[w].status = "success"
            /\ resp[w].electricity_readings = hist[w].ingested["electricity"]
            /\ resp[w].gas_readings = hist[w].ingested["gas"]
            /\ hist[w].applied = <<>>
            /\ hist[w].writes =
                   hist[w].ingested["electricity"] + hist[w].ingested["gas"]

\* A cycle answered success after storing readings of both fuel types, in
\* different numbers.
C7_Witness ==
    /\ FetchDone("w1")
    /\ resp["w1"].code = 200
    /\ resp["w1"].electricity_readings > resp["w1"].gas_readings
    /\ resp["w1"].gas_readings > 0

\* The row an executed statement of the open transaction wrote.
AppliedRow(a) == Row(a.fuel_type, a.node, a.at)

\* C8: the table changes only when a cycle commits, and then every key the
\* committing cycle wrote holds the whole row of that cycle's last statement
\* for the key, every other row is as it was, and no key has two rows.
C8_LastWriterWins ==
    [][/\ db' # db => \E w \in Workers : pc[w] = "store" /\ pc'[w] = "loop"
       /\ \A w \in Workers :
            pc[w] = "store" /\ pc'[w] = "loop" =>
                LET mine == {AppliedRow(hist[w].applied[j]) :
                                j \in 1..Len(hist[w].applied)}
                    last == {AppliedRow(hist[w].applied[j]) :
                                j \in {x \in 1..Len(hist[w].applied) :
                                         \A y \in 1..Len(hist[w].applied) :
                                             y > x => KeyOf(AppliedRow(hist[w].applied[y]))
                                                        # KeyOf(AppliedRow(hist[w].applied[x]))}}
                IN  /\ last \subseteq db'
                    /\ \A r \in db' : r \in last \/ (r \in db /\ \A m \in mine : KeyOf(m) # KeyOf(r))
                    /\ UniqueKeys(db')]_vars

\* Two cycles are under way and have written the same key: one has committed
\* its row and not yet answered, the other holds the write lock with its own
\* row for the key, not yet committed, written at another time.
C8_Witness ==
    /\ dbLock = "w1"
    /\ hist["w1"].applied # <<>>
    /\ pc["w2"] = "loop"
    /\ \E c \in hist["w2"].cycleRows, r \in db :
         /\ KeyOf(r) = <<c[1], c[2].startAt>>
         /\ KeyOf(AppliedRow(hist["w1"].applied[1])) = KeyOf(r)
         /\ AppliedRow(hist["w1"].applied[1]).updated_at # r.updated_at

\* C9 (as claimed): after a cycle that answered success, in which each meter
\* reported every interval once, every reading the cycle was given is in the
\* table: a row of its fuel type and startAt with its endAt and value.
C9_EveryReadingStored ==
    \A w \in Workers :
        FetchDone(w) /\ resp[w].code = 200 /\ ~hist[w].twice =>
            \A c \in hist[w].cycleRows :
                \E r \in db : /\ SameKey(r, c[1], c[2].startAt)
                              /\ r.interval_end = c[2].endAt
                              /\ r.consumption = c[2].value

\* C10: a step inside store_consumption other than its commit leaves the
\* table as it is, and the one that raises answers 500 with the transaction
\* never to be committed: the readings of the interrupted batch are not in
\* the table, the batches committed before it are.
C10_BatchIsAtomic ==
    [][\A w \in Workers :
          pc[w] = "store" /\ pc'[w] # "loop" =>
              /\ db' = db
              /\ pc'[w] = "done" =>
                   /\ resp'[w].code = 500
                   /\ dbLock' # w
                   /\ hist'[w].ingested = hist[w].ingested]_vars

\* A cycle answered 500 for a node without value, after committing a batch
\* and after executing a statement of the batch it then abandoned.
C10_Witness ==
    /\ FetchDone("w1")
    /\ resp["w1"] = [code |-> 500, error |-> "KeyError"]
    /\ hist["w1"].ingested["electricity"] > 0
    /\ hist["w1"].writes
           > hist["w1"].ingested["electricity"] + hist["w1"].ingested["gas"]

====
